---- MODULE Spec2Model ----
(***************************************************************************)
(* aioxmlrpc/client.py: the asynchronous XML-RPC client.                   *)
(*                                                                         *)
(* State: the AioTransport objects built so far (each owning one           *)
(* aiohttp.TCPConnector), the ServerProxy objects built so far, and the    *)
(* caller's tasks.  A task evaluates one expression                        *)
(* proxy.s1.s2...sn(args): it resolves a _Method handle one attribute at  *)
(* a time, calls it, and is then suspended inside AioTransport.request at  *)
(* one of its two "yield from" points until the HTTP library resumes it or *)
(* the task is cancelled.                                                  *)
(*                                                                         *)
(* The XML-RPC codec (xmlrpc.client) and the HTTP library (aiohttp) are    *)
(* external: the codec is modelled by what dumps and the Unmarshaller do   *)
(* on documents, the HTTP library by the events it can deliver.            *)
(***************************************************************************)
EXTENDS Integers, Sequences, FiniteSets, TLC

(***************************************************************************)
(* Bounds.  The caller's program is one of the Workloads below; each       *)
(* bound limits one of them.                                               *)
(***************************************************************************)
MaxCalls == 2      \* tasks of the concurrent workload
MaxDepth == 2      \* attribute-resolution steps (dispatch, resolve workloads)
MaxProxies == 2    \* constructions of the lifecycle workload
MaxCloses == 2     \* close() calls per proxy of the lifecycle workload

(***************************************************************************)
(* Program constants.                                                      *)
(***************************************************************************)
HTTP_OK == 200         \* "if response.status != 200"
NoResponseCode == 0    \* "errcode = 0" when no response was obtained

DefaultUserAgent == "python/aioxmlrpc"
XmlContentType == "text/xml"

(***************************************************************************)
(* Values.  A Python value is a tagged tuple; the tuple of results the     *)
(* Unmarshaller returns and the tuple of positional arguments are plain    *)
(* sequences of values wrapped as <<"tuple", s>>.                          *)
(***************************************************************************)
IntV(n) == <<"int", n>>
NoneV == <<"None">>
ListV(s) == <<"list", s>>
TupleV(s) == <<"tuple", s>>
Items(t) == t[2]

EmptyDict == <<>>

\* The positional arguments the tasks call with.
ArgTuples == {TupleV(<<IntV(7)>>), TupleV(<<IntV(7), NoneV>>)}

\* The attribute names the tasks resolve.
Segments == {"a", "b"}

(***************************************************************************)
(* Constructor arguments of ServerProxy.                                   *)
(***************************************************************************)
Uris == {[scheme |-> "http", netloc |-> "example.org", path |-> "/RPC2"],
         [scheme |-> "https", netloc |-> "example.org", path |-> "/RPC2"],
         [scheme |-> "ftp", netloc |-> "example.org", path |-> "/RPC2"]}

HeaderArgs == {EmptyDict,
               ("X-Token" :> "t"),
               ("User-Agent" :> "custom")}

ProxyArgs == [uri : Uris, headers : HeaderArgs, allow_none : BOOLEAN]

\* Variant: uri.startswith('http')
StartsWithHttps_PrefixHttp(uri) == uri.scheme \in {"http", "https"}

\* 'https://...'.startswith('https://')
StartsWithHttps(uri) == uri.scheme = "https"

\* The base class's check of the URI: any scheme but http and https raises
\* OSError("unsupported XML-RPC protocol").
UriIsSupported(uri) == uri.scheme \in {"http", "https"}

(***************************************************************************)
(* What the HTTP library can deliver.                                      *)
(***************************************************************************)
Responses == {[status |-> 200, headers |-> ("Server" :> "s1")],
              [status |-> 204, headers |-> ("Server" :> "s1")],
              [status |-> 500, headers |-> ("Server" :> "s2")]}

\* A response body: its text, and what the XML parser and the Unmarshaller
\* make of that text (doc "params": a response document with these params;
\* doc "fault": a fault document; doc "text": not XML at all).
FaultBody == [text |-> "<fault>17 method not found</fault>", doc |-> "fault",
              faultCode |-> 17, faultString |-> "method not found"]

TextBody == [text |-> "internal error", doc |-> "text"]

Bodies == {[text |-> "<params/>", doc |-> "params", params |-> <<>>],
           [text |-> "<params>7</params>", doc |-> "params", params |-> <<IntV(7)>>],
           [text |-> "<params>[7,8]</params>", doc |-> "params",
            params |-> <<ListV(<<IntV(7), IntV(8)>>)>>],
           [text |-> "<params>7 8</params>", doc |-> "params",
            params |-> <<IntV(7), IntV(8)>>],
           FaultBody,
           TextBody}

\* Exceptions (other than CancelledError) raised into the coroutine by the
\* HTTP library.
Errors == {[kind |-> "ClientOSError", msg |-> "connection refused"],
           [kind |-> "TimeoutError", msg |-> "timed out"]}

CancelledError == [kind |-> "CancelledError", msg |-> ""]

\* str(exc)
Str(exc) == exc.msg

None == [none |-> TRUE]

(***************************************************************************)
(* The caller's program: how many proxies it constructs, how many tasks it *)
(* runs, how deep its method names are, how often it closes a proxy, how   *)
(* many transports it builds itself to pass to ServerProxy, and which      *)
(* constructor arguments it uses (configs).                                *)
(***************************************************************************)
PlainArgs == {a \in ProxyArgs : a.headers = EmptyDict /\ a.uri.scheme = "http"}

DefaultArgs == {a \in ProxyArgs : a.headers = EmptyDict /\ ~a.allow_none}

Workloads == {[name |-> "concurrent", proxies |-> 1, calls |-> MaxCalls, depth |-> 1, closes |-> 0,
               standalone |-> 0, configs |-> PlainArgs \cap DefaultArgs],
              [name |-> "resolve", proxies |-> 1, calls |-> 2, depth |-> MaxDepth, closes |-> 0,
               standalone |-> 0, configs |-> PlainArgs],
              [name |-> "dispatch", proxies |-> 1, calls |-> 1, depth |-> MaxDepth, closes |-> 1,
               standalone |-> 0, configs |-> ProxyArgs],
              [name |-> "lifecycle", proxies |-> MaxProxies, calls |-> 0, depth |-> 1,
               closes |-> MaxCloses, standalone |-> 0, configs |-> DefaultArgs],
              [name |-> "injection", proxies |-> 1, calls |-> 1, depth |-> 1, closes |-> 1,
               standalone |-> 1, configs |-> DefaultArgs]}

VARIABLES
    workload,     \* the caller's program (never changes)
    transports,   \* sequence of AioTransport objects, in construction order
    proxies,      \* sequence of ServerProxy objects, in construction order
    initErrors,   \* the ServerProxy(...) calls that raised, in order
    tasks,        \* task -> its position and locals
    sendCount,    \* task -> number of times its handle's send was invoked
    postCount     \* task -> number of HTTP POSTs issued for it

vars == <<workload, transports, proxies, initErrors, tasks, sendCount, postCount>>

Tasks == 1..workload.calls

Idle == [pc |-> "idle"]

Init ==
    /\ workload \in Workloads
    /\ transports = <<>>
    /\ proxies = <<>>
    /\ initErrors = <<>>
    /\ tasks = [c \in Tasks |-> Idle]
    /\ sendCount = [c \in Tasks |-> 0]
    /\ postCount = [c \in Tasks |-> 0]

(***************************************************************************)
(* AioTransport.__init__: creates the connector; the default headers are   *)
(* used only when the headers argument is falsy (None or empty).           *)
(***************************************************************************)
DefaultHeaders(user_agent) ==
    ("User-Agent" :> user_agent) @@ ("Accept" :> XmlContentType)
        @@ ("Content-Type" :> XmlContentType)

TransportHeaders(headers, user_agent) ==
    IF headers = EmptyDict THEN DefaultHeaders(user_agent) ELSE headers

AioTransport_init(use_https, headers, user_agent) ==
    [use_https |-> use_https,
     user_agent |-> user_agent,
     headers |-> TransportHeaders(headers, user_agent),
     auth |-> None,
     connector_closes |-> 0]

(***************************************************************************)
(* The caller builds a transport itself, to pass it to ServerProxy.        *)
(* built_by tells the two kinds of transport apart; no operation reads it. *)
(***************************************************************************)
CallerBuilt == {t \in DOMAIN transports : transports[t].built_by = "caller"}

AioTransport_new(use_https, headers) ==
    /\ Cardinality(CallerBuilt) < workload.standalone
    /\ transports' = Append(transports,
           AioTransport_init(use_https, headers, DefaultUserAgent) @@ [built_by |-> "caller"])
    /\ UNCHANGED <<workload, proxies, initErrors, tasks, sendCount, postCount>>

(***************************************************************************)
(* ServerProxy.__init__(uri, transport=inj, ...), inj = 0 standing for no  *)
(* transport argument: "if not transport" builds the transport from the    *)
(* URI prefix; then the base class checks the URI and stores host, handler *)
(* and allow_none.  args keeps the constructor's arguments as the caller   *)
(* gave them, and close_calls counts the caller's close() calls: neither   *)
(* is read by any operation.                                               *)
(***************************************************************************)
\* Variant: the URI is checked before the transport is built.
TransportsAfterInit_CheckFirst(args, inj) ==
    IF inj = 0 /\ UriIsSupported(args.uri)
    THEN Append(transports,
             AioTransport_init(StartsWithHttps(args.uri), args.headers, DefaultUserAgent)
                 @@ [built_by |-> "ServerProxy"])
    ELSE transports

\* The transports once the "if not transport" statement has run.
TransportsAfterInit(args, inj) ==
    IF inj = 0
    THEN Append(transports,
             AioTransport_init(StartsWithHttps(args.uri), args.headers, DefaultUserAgent)
                 @@ [built_by |-> "ServerProxy"])
    ELSE transports

ServerProxy_init(args, inj) ==
    /\ Len(proxies) + Len(initErrors) < workload.proxies
    /\ args \in workload.configs
    /\ inj = 0 \/ inj \in CallerBuilt
    /\ transports' = TransportsAfterInit(args, inj)
    /\ IF UriIsSupported(args.uri)
       THEN /\ proxies' = Append(proxies,
                   [host |-> args.uri.netloc,
                    handler |-> args.uri.path,
                    allow_none |-> args.allow_none,
                          encoding |-> None,
                    transport |-> IF inj = 0 THEN Len(transports) + 1 ELSE inj,
                    args |-> args,
                    injected |-> inj # 0,
                    close_calls |-> 0])
            /\ UNCHANGED initErrors
       ELSE /\ initErrors' = Append(initErrors, [args |-> args, injected |-> inj # 0])
            /\ UNCHANGED proxies
    /\ UNCHANGED <<workload, tasks, sendCount, postCount>>

(***************************************************************************)
(* AioTransport.close: self._connector.close(), with no guard.             *)
(***************************************************************************)
\* Variant: close() does not reach the connector.
AioTransport_close_Noop(t) == transports

AioTransport_close(t) ==
    [transports EXCEPT ![t].connector_closes = @ + 1]

(***************************************************************************)
(* ServerProxy.close: self.__transport.close().                            *)
(***************************************************************************)
ServerProxy_close(p) ==
    /\ p \in DOMAIN proxies
    /\ proxies[p].close_calls < workload.closes
    /\ proxies' = [proxies EXCEPT ![p].close_calls = @ + 1]
    /\ transports' = AioTransport_close(proxies[p].transport)
    /\ UNCHANGED <<workload, initErrors, tasks, sendCount, postCount>>

(***************************************************************************)
(* Outcomes of a call: a returned value or a raised exception.             *)
(***************************************************************************)
Return(v) == [kind |-> "return", value |-> v]

ProtocolError(url, errcode, errmsg, headers) ==
    [kind |-> "ProtocolError", url |-> url, errcode |-> errcode,
     errmsg |-> errmsg, headers |-> headers]

Fault(faultCode, faultString) ==
    [kind |-> "Fault", faultCode |-> faultCode, faultString |-> faultString]

(***************************************************************************)
(* _Method: a handle binds the proxy's send (proxy.__request) to a name.   *)
(* segs records the attribute names the handle was resolved through.       *)
(***************************************************************************)
Method_init(p, name, segs) ==
    [pc |-> "handle", proxy |-> p, name |-> name, segs |-> segs]

\* Variant: the child handle is named by the last attribute only.
MethodName_ChildOnly(parent, name) == name

\* "%s.%s" % (self.__name, name)
MethodName(parent, name) == parent \o "." \o name

\* ServerProxy.__getattr__: _Method(self.__request, name)
ServerProxy_getattr(c, p, name) ==
    /\ tasks[c].pc = "idle"
    /\ p \in DOMAIN proxies
    /\ tasks' = [tasks EXCEPT ![c] = Method_init(p, name, <<name>>)]
    /\ UNCHANGED <<workload, initErrors, transports, proxies, sendCount, postCount>>

\* Variant: the parent accumulates the name as well.
Method_getattr_Accumulate(c, d, name) ==
    /\ tasks[c].pc = "handle"
    /\ Len(tasks[c].segs) < workload.depth
    /\ d = c \/ tasks[d].pc = "idle"
    /\ LET child == Method_init(tasks[c].proxy, MethodName(tasks[c].name, name),
                                Append(tasks[c].segs, name))
       IN  tasks' = [tasks EXCEPT ![c] = child, ![d] = child]
    /\ UNCHANGED <<workload, initErrors, transports, proxies, sendCount, postCount>>

\* _Method.__getattr__: a new handle with the same send.  The caller keeps the
\* new handle in d: in place of the parent (d = c, as in proxy.a.b) or next to
\* it (h = proxy.a; g = h.b).
Method_getattr(c, d, name) ==
    /\ tasks[c].pc = "handle"
    /\ Len(tasks[c].segs) < workload.depth
    /\ d = c \/ tasks[d].pc = "idle"
    /\ tasks' = [tasks EXCEPT ![d] =
           Method_init(tasks[c].proxy, MethodName(tasks[c].name, name),
                       Append(tasks[c].segs, name))]
    /\ UNCHANGED <<workload, initErrors, transports, proxies, sendCount, postCount>>

(***************************************************************************)
(* xmlrpc.dumps(params, methodname, allow_none=...): a None among the      *)
(* params is a TypeError unless allow_none is set.                         *)
(***************************************************************************)
HasNone(params) == \E i \in DOMAIN params : params[i] = NoneV

Dumps(params, methodname, allow_none) ==
    IF HasNone(params) /\ ~allow_none
    THEN [kind |-> "TypeError", msg |-> "cannot marshal None unless allow_none is enabled"]
    ELSE Return([methodName |-> methodname, params |-> params])

(***************************************************************************)
(* AioTransport._build_url                                                 *)
(***************************************************************************)
build_url(use_https, host, handler) ==
    (IF use_https THEN "https" ELSE "http") \o "://" \o host \o handler

(***************************************************************************)
(* AioTransport.request, the except clauses: what leaves the try block     *)
(* when exc is raised inside it, response being the local variable         *)
(* (None until aiohttp.request has returned).                              *)
(***************************************************************************)
\* Variant: no "except asyncio.CancelledError: raise" clause.
request_except_NoCancelClause(url, response, exc) ==
    IF exc.kind = "ProtocolError" THEN exc
    ELSE IF response # None
         THEN ProtocolError(url, response.status, Str(exc), response.headers)
         ELSE ProtocolError(url, NoResponseCode, Str(exc), EmptyDict)

\* Variant: the message is the exception's class name, not str(exc).
request_except_ClassNameMessage(url, response, exc) ==
    IF exc.kind = "CancelledError" THEN exc
    ELSE IF exc.kind = "ProtocolError" THEN exc
    ELSE IF response # None
         THEN ProtocolError(url, response.status, exc.kind, response.headers)
         ELSE ProtocolError(url, NoResponseCode, exc.kind, EmptyDict)

\* Variant: errcode and headers are not taken from the response.
request_except_NoResponseLookup(url, response, exc) ==
    IF exc.kind = "CancelledError" THEN exc
    ELSE IF exc.kind = "ProtocolError" THEN exc
    ELSE ProtocolError(url, NoResponseCode, Str(exc), EmptyDict)

request_except(url, response, exc) ==
    IF exc.kind = "CancelledError" THEN exc
    ELSE IF exc.kind = "ProtocolError" THEN exc
    ELSE IF response # None
         THEN ProtocolError(url, response.status, Str(exc), response.headers)
         ELSE ProtocolError(url, NoResponseCode, Str(exc), EmptyDict)

(***************************************************************************)
(* AioTransport.parse_response: feed the body to the parser and return     *)
(* what the Unmarshaller's close() gives: the tuple of params, or Fault    *)
(* raised for a fault document; text that is not XML raises ExpatError.    *)
(***************************************************************************)
parse_response(body) ==
    CASE body.doc = "params" -> Return(TupleV(body.params))
      [] body.doc = "fault" -> Fault(body.faultCode, body.faultString)
      [] OTHER -> [kind |-> "ExpatError", msg |-> "syntax error"]

\* Variant: "if response.status >= 400"
StatusIsOk_Below400(status) == status < 400

\* "if response.status != 200"
StatusIsOk(status) == status = HTTP_OK

(***************************************************************************)
(* AioTransport.request from the point where response.text() has returned *)
(* body: the status check inside the try block, then parse_response        *)
(* outside it.                                                             *)
(***************************************************************************)
\* Variant: "return self.parse_response(body)" placed inside the try block.
request_body_read_ParseInTry(url, response, body) ==
    IF ~StatusIsOk(response.status)
    THEN request_except(url, response,
             ProtocolError(url, response.status, body.text, response.headers))
    ELSE IF parse_response(body).kind = "return"
         THEN parse_response(body)
         ELSE request_except(url, response,
                  [kind |-> parse_response(body).kind, msg |-> body.text])

\* Variant: the body is decoded before the status is looked at.
request_body_read_DecodeFirst(url, response, body) ==
    IF parse_response(body).kind = "Fault"
    THEN parse_response(body)
    ELSE IF ~StatusIsOk(response.status)
    THEN request_except(url, response,
             ProtocolError(url, response.status, body.text, response.headers))
    ELSE parse_response(body)

request_body_read(url, response, body) ==
    IF ~StatusIsOk(response.status)
    THEN request_except(url, response,
             ProtocolError(url, response.status, body.text, response.headers))
    ELSE parse_response(body)

(***************************************************************************)
(* ServerProxy.__request after the transport's request has finished:       *)
(* "if len(response) == 1: response = response[0]"; an exception passes    *)
(* through.  _Method.__call__ returns what send returned.                  *)
(***************************************************************************)
\* Variant: "if len(response) >= 1"
Unwrap_AtLeastOne(response) ==
    IF Len(Items(response)) >= 1 THEN Items(response)[1] ELSE response

Unwrap(response) ==
    IF Len(Items(response)) = 1 THEN Items(response)[1] ELSE response

ServerProxy_request_finish(out) ==
    IF out.kind = "return" THEN Return(Unwrap(out.value)) ELSE out

Done(c, response, body, error, out) ==
    [pc |-> "done", proxy |-> tasks[c].proxy, url |-> tasks[c].url,
     response |-> response, body |-> body, error |-> error,
     outcome |-> ServerProxy_request_finish(out)]

(***************************************************************************)
(* _Method.__call__ -> ServerProxy.__request -> AioTransport.request up to *)
(* its first suspension: encode, build the URL, issue the POST.  A failed  *)
(* encode leaves before the transport is entered.  methodname and params   *)
(* are what send received; segs and args what the caller resolved and      *)
(* passed.                                                                 *)
(***************************************************************************)
\* _Method.__call__: self.__send(self.__name, args)
Method_send(name, args) == [methodname |-> name, params |-> args]

\* Variant: the POST is issued before the request is encoded.
Method_call_PostBeforeEncode(c, args) ==
    /\ tasks[c].pc = "handle"
    /\ \A d \in Tasks : d < c => tasks[d].pc \notin {"idle", "handle"}
    /\ LET p == proxies[tasks[c].proxy]
           t == transports[p.transport]
           send == Method_send(tasks[c].name, args)
           request == Dumps(Items(send.params), send.methodname, p.allow_none)
           url == build_url(t.use_https, p.host, p.handler)
           frame == [proxy |-> tasks[c].proxy, segs |-> tasks[c].segs, args |-> args,
                     methodname |-> send.methodname, params |-> send.params,
                     response |-> None]
       IN  /\ sendCount' = [sendCount EXCEPT ![c] = @ + 1]
           /\ IF request.kind # "return"
              THEN /\ tasks' = [tasks EXCEPT ![c] =
                          frame @@ [pc |-> "done", url |-> "", body |-> None,
                                    error |-> None, outcome |-> request]]
                   /\ postCount' = [postCount EXCEPT ![c] = @ + 1]
              ELSE /\ tasks' = [tasks EXCEPT ![c] =
                          frame @@ [pc |-> "awaitPost", wake |-> "none", url |-> url,
                                    post |-> [url |-> url, headers |-> t.headers,
                                              data |-> request.value]]]
                   /\ postCount' = [postCount EXCEPT ![c] = @ + 1]
    /\ UNCHANGED <<workload, initErrors, transports, proxies>>

\* Tasks are numbered in the order the caller invokes them.
Method_call(c, args) ==
    /\ tasks[c].pc = "handle"
    /\ \A d \in Tasks : d < c => tasks[d].pc \notin {"idle", "handle"}
    /\ LET p == proxies[tasks[c].proxy]
           t == transports[p.transport]
           send == Method_send(tasks[c].name, args)
           request == Dumps(Items(send.params), send.methodname, p.allow_none)
           url == build_url(t.use_https, p.host, p.handler)
           frame == [proxy |-> tasks[c].proxy, segs |-> tasks[c].segs, args |-> args,
                     methodname |-> send.methodname, params |-> send.params,
                     response |-> None]
       IN  /\ sendCount' = [sendCount EXCEPT ![c] = @ + 1]
           /\ IF request.kind # "return"
              THEN /\ tasks' = [tasks EXCEPT ![c] =
                          frame @@ [pc |-> "done", url |-> "", body |-> None,
                                    error |-> None, outcome |-> request]]
                   /\ UNCHANGED postCount
              ELSE /\ tasks' = [tasks EXCEPT ![c] =
                          frame @@ [pc |-> "awaitPost", wake |-> "none", url |-> url,
                                    post |-> [url |-> url, headers |-> t.headers,
                                              data |-> request.value]]]
                   /\ postCount' = [postCount EXCEPT ![c] = @ + 1]
    /\ UNCHANGED <<workload, initErrors, transports, proxies>>

(***************************************************************************)
(* The two "yield from" of AioTransport.request.  The future the task      *)
(* waits on is completed by the HTTP library, with a result or with an     *)
(* exception, or the task is cancelled; the event loop then schedules the  *)
(* task's next step (wake).  The step itself, in which the coroutine       *)
(* receives the result or the exception, runs later: PostResponds,         *)
(* PostFails, BodyRead, BodyFails, Cancel.  A cancellation may overtake a  *)
(* result that was delivered but not yet received.                         *)
(***************************************************************************)
WakeKinds == {"result", "error"}

Wakeup(c, kind) ==
    /\ tasks[c].pc \in {"awaitPost", "awaitBody"}
    /\ tasks[c].wake = "none" \/ (tasks[c].wake = "result" /\ kind = "error")
    /\ tasks' = [tasks EXCEPT ![c].wake = kind]
    /\ UNCHANGED <<workload, initErrors, transports, proxies, sendCount, postCount>>

\* aiohttp.request(...) returns a response: go on to response.text()
PostResponds(c, response) ==
    /\ tasks[c].pc = "awaitPost"
    /\ tasks[c].wake = "result"
    /\ tasks' = [tasks EXCEPT ![c] =
           [pc |-> "awaitBody", wake |-> "none", proxy |-> @.proxy, url |-> @.url, response |-> response]]
    /\ UNCHANGED <<workload, initErrors, transports, proxies, sendCount, postCount>>

\* Variant: a failed POST is issued again.
PostFails_Retry(c, exc) ==
    /\ tasks[c].pc = "awaitPost"
    /\ postCount' = [postCount EXCEPT ![c] = @ + 1]
    /\ UNCHANGED <<workload, initErrors, transports, proxies, tasks, sendCount>>

\* Variant: a failed POST closes the transport.
PostFails_ClosesTransport(c, exc) ==
    /\ tasks[c].pc = "awaitPost"
    /\ tasks[c].wake = "error"
    /\ tasks' = [tasks EXCEPT ![c] =
           Done(c, None, None, exc, request_except(@.url, @.response, exc))]
    /\ transports' = AioTransport_close(proxies[tasks[c].proxy].transport)
    /\ UNCHANGED <<workload, initErrors, proxies, sendCount, postCount>>

\* aiohttp.request(...) raises
PostFails(c, exc) ==
    /\ tasks[c].pc = "awaitPost"
    /\ tasks[c].wake = "error"
    /\ tasks' = [tasks EXCEPT ![c] =
           Done(c, None, None, exc, request_except(@.url, @.response, exc))]
    /\ UNCHANGED <<workload, initErrors, transports, proxies, sendCount, postCount>>

\* Variant: the response is kept on the transport, which the tasks share, so
\* another task's response may be the one checked.
BodyRead_SharedResponse(c, body) ==
    /\ tasks[c].pc = "awaitBody"
    /\ tasks[c].wake = "result"
    /\ LET others == {d \in Tasks \ {c} : tasks[d].pc = "awaitBody"}
           shared == IF others = {} THEN tasks[c].response
                     ELSE tasks[CHOOSE d \in others : TRUE].response
       IN  tasks' = [tasks EXCEPT ![c] =
               Done(c, @.response, body, None, request_body_read(@.url, shared, body))]
    /\ UNCHANGED <<workload, initErrors, transports, proxies, sendCount, postCount>>

\* Variant: calls are served in the order they were made.
BodyRead_InCallOrder(c, body) ==
    /\ tasks[c].pc = "awaitBody"
    /\ tasks[c].wake = "result"
    /\ \A d \in Tasks : d < c => tasks[d].pc = "done"
    /\ tasks' = [tasks EXCEPT ![c] =
           Done(c, @.response, body, None, request_body_read(@.url, @.response, body))]
    /\ UNCHANGED <<workload, initErrors, transports, proxies, sendCount, postCount>>

\* response.text() returns the body
BodyRead(c, body) ==
    /\ tasks[c].pc = "awaitBody"
    /\ tasks[c].wake = "result"
    /\ tasks' = [tasks EXCEPT ![c] =
           Done(c, @.response, body, None, request_body_read(@.url, @.response, body))]
    /\ UNCHANGED <<workload, initErrors, transports, proxies, sendCount, postCount>>

\* Variant: the coroutine gives up on a body that has not arrived (a timeout
\* of its own).
BodyFails_Timeout(c, exc) ==
    /\ tasks[c].pc = "awaitBody"
    /\ tasks' = [tasks EXCEPT ![c] =
           Done(c, @.response, None, exc, request_except(@.url, @.response, exc))]
    /\ UNCHANGED <<workload, initErrors, transports, proxies, sendCount, postCount>>

\* response.text() raises
BodyFails(c, exc) ==
    /\ tasks[c].pc = "awaitBody"
    /\ tasks[c].wake = "error"
    /\ tasks' = [tasks EXCEPT ![c] =
           Done(c, @.response, None, exc, request_except(@.url, @.response, exc))]
    /\ UNCHANGED <<workload, initErrors, transports, proxies, sendCount, postCount>>

\* The task is cancelled while suspended: CancelledError is raised at the
\* "yield from" it is waiting in.
Cancel(c) ==
    /\ tasks[c].pc \in {"awaitPost", "awaitBody"}
    /\ tasks[c].wake = "error"
    /\ tasks' = [tasks EXCEPT ![c] =
           Done(c, @.response, None, CancelledError,
                request_except(@.url, @.response, CancelledError))]
    /\ UNCHANGED <<workload, initErrors, transports, proxies, sendCount, postCount>>

Next ==
    \/ \E use_https \in BOOLEAN, headers \in HeaderArgs : AioTransport_new(use_https, headers)
    \/ \E args \in ProxyArgs, inj \in 0..MaxProxies : ServerProxy_init(args, inj)
    \/ \E p \in 1..MaxProxies : ServerProxy_close(p)
    \/ \E c \in Tasks, p \in 1..MaxProxies, name \in Segments : ServerProxy_getattr(c, p, name)
    \/ \E c \in Tasks, d \in Tasks, name \in Segments : Method_getattr(c, d, name)
    \/ \E c \in Tasks, args \in ArgTuples : Method_call(c, args)
    \/ \E c \in Tasks, kind \in WakeKinds : Wakeup(c, kind)
    \/ \E c \in Tasks, response \in Responses : PostResponds(c, response)
    \/ \E c \in Tasks, exc \in Errors : PostFails(c, exc)
    \/ \E c \in Tasks, body \in Bodies : BodyRead(c, body)
    \/ \E c \in Tasks, exc \in Errors : BodyFails(c, exc)
    \/ \E c \in Tasks : Cancel(c)

Spec == Init /\ [][Next]_vars

\* The next step of task c, once it is scheduled.
Step(c) ==
    /\ c \in Tasks
    /\ \/ \E response \in Responses : PostResponds(c, response)
       \/ \E exc \in Errors : PostFails(c, exc)
       \/ \E body \in Bodies : BodyRead(c, body)
       \/ \E exc \in Errors : BodyFails(c, exc)
       \/ Cancel(c)

\* The event loop runs every scheduled step: its ready queue is first in,
\* first out.
FairSpec == Spec /\ \A c \in 1..MaxCalls : WF_vars(Step(c))

(***************************************************************************)
(* Properties.                                                             *)
(***************************************************************************)
Finished == {c \in Tasks : tasks[c].pc = "done"}

\* The call went through response.text(): a response and its body were obtained.
BodyObtained(c) == tasks[c].pc = "done" /\ tasks[c].body # None

\* C1: every failed invoke fails with exactly one of ProtocolError, Fault or
\* cancellation, at every failure point of the pipeline (encoding, the POST,
\* reading the body, decoding a status-200 body).
C1_FailsOnlyWithThreeKinds ==
    \A c \in Finished :
        tasks[c].outcome.kind \in {"return", "ProtocolError", "Fault", "CancelledError"}

\* C2: a call cancelled while awaiting the POST (no response yet) or while
\* awaiting the body (response obtained) ends in CancelledError, never in
\* ProtocolError or Fault.
C2_CancellationPropagates ==
    \A c \in Finished :
        tasks[c].error = CancelledError => tasks[c].outcome = CancelledError

C2_Witness ==
    \E c, d \in Finished :
        /\ tasks[c].error = CancelledError /\ tasks[c].response = None
        /\ tasks[d].error = CancelledError /\ tasks[d].response # None

\* C3: an exchange that completes with a status s other than 200 and a body b
\* fails with ProtocolError(url, s, b, response headers); the body is not
\* decoded and nothing is returned.
C3_Non200IsProtocolError ==
    \A c \in Finished :
        (BodyObtained(c) /\ tasks[c].response.status # 200) =>
            tasks[c].outcome = ProtocolError(tasks[c].url, tasks[c].response.status,
                                             tasks[c].body.text, tasks[c].response.headers)

C3_Witness ==
    \E c \in Finished :
        /\ BodyObtained(c)
        /\ tasks[c].response.status = 500
        /\ tasks[c].body = TextBody
        /\ tasks[c].outcome.kind = "ProtocolError"
        /\ tasks[c].outcome.errcode = 500
        /\ tasks[c].outcome.errmsg = "internal error"

\* C4: a ProtocolError has status 0 exactly when no response was obtained: a
\* failure of the POST gives ProtocolError(url, 0, str(exc), {}), and a
\* ProtocolError raised after a response was obtained carries that response's
\* status.
C4_StatusZeroIffNoResponse ==
    \A c \in Finished :
        /\ (tasks[c].response = None /\ tasks[c].error \in Errors) =>
               tasks[c].outcome = ProtocolError(tasks[c].url, 0, Str(tasks[c].error), EmptyDict)
        /\ (tasks[c].outcome.kind = "ProtocolError" /\ tasks[c].response # None) =>
               tasks[c].outcome.errcode = tasks[c].response.status
        /\ (tasks[c].outcome.kind = "ProtocolError" /\ tasks[c].outcome.errcode = 0) =>
               (tasks[c].response = None \/ tasks[c].response.status = 0)

C4_Witness ==
    \E c, d \in Finished :
        /\ tasks[c].response = None /\ tasks[c].error \in Errors
        /\ tasks[c].outcome.kind = "ProtocolError" /\ tasks[c].outcome.errcode = 0
        /\ tasks[d].response # None /\ tasks[d].error \in Errors
        /\ tasks[d].outcome.kind = "ProtocolError" /\ tasks[d].outcome.errcode # 0

\* C5: a status-200 response whose body is a fault document with code c and
\* string s fails with Fault(c, s), not with ProtocolError.
C5_FaultPropagates ==
    \A c \in Finished :
        (BodyObtained(c) /\ tasks[c].response.status = 200 /\ tasks[c].body.doc = "fault") =>
            tasks[c].outcome = Fault(tasks[c].body.faultCode, tasks[c].body.faultString)

C5_Witness ==
    \E c \in Finished :
        /\ BodyObtained(c) /\ tasks[c].response.status = 200 /\ tasks[c].body = FaultBody
        /\ tasks[c].outcome.kind = "Fault"
        /\ tasks[c].outcome.faultCode = 17
        /\ tasks[c].outcome.faultString = "method not found"

RECURSIVE Dotted(_)
\* The attribute names joined by '.'.
Dotted(segs) ==
    IF Len(segs) = 1 THEN segs[1] ELSE segs[1] \o "." \o Dotted(Tail(segs))

\* C6: a handle resolved through segments s1..sn, invoked with args, produces
\* exactly one send, which receives the name s1.s2.....sn and args unchanged
\* (and the POST's request document carries that name and those arguments).
C6_SendGetsDottedName ==
    \A c \in Tasks :
        /\ tasks[c].pc \in {"idle", "handle"} => sendCount[c] = 0
        /\ tasks[c].pc \notin {"idle", "handle"} => sendCount[c] = 1
        /\ tasks[c].pc = "handle" => tasks[c].name = Dotted(tasks[c].segs)
        /\ "methodname" \in DOMAIN tasks[c] =>
               /\ tasks[c].methodname = Dotted(tasks[c].segs)
               /\ tasks[c].params = tasks[c].args
        /\ tasks[c].pc = "awaitPost" =>
               /\ tasks[c].post.data.methodName = Dotted(tasks[c].segs)
               /\ tasks[c].post.data.params = Items(tasks[c].args)

C6_Witness ==
    \E c \in Tasks :
        /\ tasks[c].pc = "awaitPost"
        /\ tasks[c].segs = <<"a", "b">>
        /\ tasks[c].methodname = "a.b"
        /\ tasks[c].args = TupleV(<<IntV(7), NoneV>>)
        /\ sendCount[c] = 1

\* C7: a status-200 response with a success document raises nothing; a
\* one-element result is returned unwrapped once (even when the element is
\* itself a list), a result of any other length is returned as it is.
C7_SingletonUnwrapped ==
    \A c \in Finished :
        (BodyObtained(c) /\ tasks[c].response.status = 200 /\ tasks[c].body.doc = "params") =>
            /\ tasks[c].outcome.kind = "return"
            /\ tasks[c].outcome.value =
                   IF Len(tasks[c].body.params) = 1
                   THEN tasks[c].body.params[1]
                   ELSE TupleV(tasks[c].body.params)

C7_Witness ==
    \E c, d \in Finished :
        /\ BodyObtained(c) /\ tasks[c].response.status = 200
        /\ tasks[c].body.doc = "params"
        /\ tasks[c].body.params = <<ListV(<<IntV(7), IntV(8)>>)>>
        /\ tasks[c].outcome = Return(ListV(<<IntV(7), IntV(8)>>))
        /\ BodyObtained(d) /\ tasks[d].response.status = 200
        /\ tasks[d].body.doc = "params"
        /\ Len(tasks[d].body.params) = 2
        /\ tasks[d].outcome = Return(TupleV(<<IntV(7), IntV(8)>>))

Releases(p) == transports[proxies[p].transport].connector_closes

\* C8 as claimed: a closed proxy's connector has been released exactly once,
\* also when close() is called again.
C8_ReleasedExactlyOnce ==
    \A p \in DOMAIN proxies :
        proxies[p].close_calls >= 1 => Releases(p) = 1

\* C8, amended: every close() on a proxy releases that proxy's connector
\* once: after k close() calls it has been released k times (exactly once
\* after one close(), never unreleased after a close()); a repeated close()
\* is not guarded and releases again.
C8_EachCloseReleases ==
    \A p \in DOMAIN proxies : Releases(p) = proxies[p].close_calls

C8_Witness ==
    /\ Len(proxies) = 2
    /\ \A p \in DOMAIN proxies : proxies[p].close_calls = 1 /\ Releases(p) = 1

\* The call entered AioTransport.request.
EnteredTransport(c) ==
    \/ tasks[c].pc \in {"awaitPost", "awaitBody"}
    \/ tasks[c].pc = "done" /\ tasks[c].outcome.kind # "TypeError"

\* C9: an invoke that reaches the transport issues exactly one POST, whatever
\* the outcome (non-200, connection failure, body-read failure, Fault,
\* cancellation); one that does not issues none; POSTs never outnumber invokes.
C9_OnePostPerInvoke ==
    \A c \in Tasks :
        /\ postCount[c] = IF EnteredTransport(c) THEN 1 ELSE 0
        /\ postCount[c] <= sendCount[c]

C9_Witness ==
    \E c, d \in Finished :
        /\ tasks[c].outcome.kind = "ProtocolError" /\ tasks[c].response = None
        /\ tasks[d].outcome.kind = "Fault"
        /\ postCount[c] = 1 /\ postCount[d] = 1

StandardHeaders == {"User-Agent", "Accept", "Content-Type"}

\* C10: every POST carries User-Agent, Accept: text/xml and Content-Type:
\* text/xml, the caller's header mapping overriding only the headers it names.
C10_StandardHeadersOnEveryPost ==
    \A c \in Tasks :
        tasks[c].pc = "awaitPost" =>
            LET sent == tasks[c].post.headers
                custom == proxies[tasks[c].proxy].args.headers
            IN  \A h \in StandardHeaders :
                    /\ h \in DOMAIN sent
                    /\ sent[h] = IF h \in DOMAIN custom THEN custom[h]
                                 ELSE DefaultHeaders(DefaultUserAgent)[h]

\* The call has computed its URL (it entered AioTransport.request).
HasUrl(c) == EnteredTransport(c)

SchemeOfUri(uri) == IF uri.scheme = "https" THEN "https" ELSE "http"

\* C11 as claimed: the URL of every call is scheme://host+path with the scheme
\* taken from the URI given at construction, also when the transport was
\* injected.
C11_SchemeFromUri ==
    \A c \in Tasks :
        HasUrl(c) =>
            LET uri == proxies[tasks[c].proxy].args.uri
            IN  tasks[c].url = SchemeOfUri(uri) \o "://" \o uri.netloc \o uri.path

\* C11, what the code does: with a transport built by the proxy the scheme is https when
\* the URI started with 'https://' and http otherwise; with an injected
\* transport it is the scheme of that transport's own use_https flag, whatever
\* the URI.  The POST goes to that URL.
C11_SchemeFromTransport ==
    \A c \in Tasks :
        HasUrl(c) =>
            LET p == proxies[tasks[c].proxy]
                uri == p.args.uri
                scheme == IF p.injected
                          THEN (IF transports[p.transport].use_https THEN "https" ELSE "http")
                          ELSE SchemeOfUri(uri)
            IN  /\ tasks[c].url = scheme \o "://" \o uri.netloc \o uri.path
                /\ tasks[c].pc = "awaitPost" => tasks[c].post.url = tasks[c].url

C11_Witness ==
    \E c \in Tasks :
        /\ tasks[c].pc = "awaitPost"
        /\ ~proxies[tasks[c].proxy].injected
        /\ proxies[tasks[c].proxy].args.uri.scheme = "https"
        /\ tasks[c].post.url = "https://example.org/RPC2"

\* Transports a failed ServerProxy construction built: no proxy holds them, and
\* the caller, who got the exception instead of a proxy, holds no reference.
Orphans ==
    {t \in DOMAIN transports :
        /\ transports[t].built_by = "ServerProxy"
        /\ \A p \in DOMAIN proxies : proxies[p].transport # t}

FailedOnUri == {e \in DOMAIN initErrors : ~initErrors[e].injected}

\* C20: with no transport injected the transport and its connector are created
\* before the URI is validated, so every construction that failed on the URI
\* left one connector behind, which no close() releases.
C20_FailedInitLeaksConnector ==
    /\ Cardinality(Orphans) = Cardinality(FailedOnUri)
    /\ \A t \in Orphans : transports[t].connector_closes = 0
    /\ \A e \in DOMAIN initErrors : ~UriIsSupported(initErrors[e].args.uri)

\* A failed construction left a connector while a proxy built later has been
\* closed: that close() released the proxy's own connector only.
C20_Witness ==
    /\ Orphans # {}
    /\ \E p \in DOMAIN proxies : proxies[p].close_calls > 0
    /\ \A t \in Orphans : transports[t].connector_closes = 0

\* Task d received a handle in this step (a resolve step).
Resolved(d) == tasks'[d] # tasks[d] /\ tasks'[d].pc = "handle"

\* C12: a resolve step encodes nothing and posts nothing, changes no task but
\* the one that receives the new handle, and a handle resolved from handle h
\* with segment x is named h.x while h keeps its own name.
C12_ResolutionIsPure ==
    [][\A d \in Tasks :
          Resolved(d) =>
              /\ sendCount' = sendCount /\ postCount' = postCount
              /\ \A e \in Tasks \ {d} : tasks'[e] = tasks[e]
              /\ \A e \in Tasks : tasks'[e].pc \notin {"awaitPost"} \/ tasks'[e] = tasks[e]
              /\ Len(tasks'[d].segs) > 1 =>
                    \E c \in Tasks, x \in Segments :
                        /\ tasks[c].pc = "handle"
                        /\ tasks'[d].segs = Append(tasks[c].segs, x)
                        /\ tasks'[d].name = tasks[c].name \o "." \o x
                        /\ c # d => tasks'[c].name = tasks[c].name]_vars

\* Handle a was resolved further to a.b, which is kept next to it, and a is
\* invoked: it goes out under its own name.
C12_Witness ==
    \E c \in Tasks, d \in Tasks :
        /\ tasks[c].pc = "awaitPost" /\ tasks[c].segs = <<"a">>
        /\ tasks[c].post.data.methodName = "a"
        /\ tasks[d].pc = "handle" /\ tasks[d].name = "a.b"

\* The outcome of a finished call as its own inputs alone determine it: the
\* proxy it was made on, the name and arguments, and what the HTTP library
\* delivered for its own POST (response, body, error).
AloneOutcome(t) ==
    IF ~(t.url # "")
    THEN Dumps(Items(t.params), t.methodname, proxies[t.proxy].allow_none)
    ELSE IF t.error # None
    THEN IF t.error.kind = "CancelledError" THEN CancelledError
         ELSE IF t.response = None
              THEN ProtocolError(t.url, NoResponseCode, t.error.msg, EmptyDict)
              ELSE ProtocolError(t.url, t.response.status, t.error.msg, t.response.headers)
    ELSE IF t.response.status # HTTP_OK
    THEN ProtocolError(t.url, t.response.status, t.body.text, t.response.headers)
    ELSE IF t.body.doc = "params"
    THEN Return(IF Len(t.body.params) = 1 THEN t.body.params[1] ELSE TupleV(t.body.params))
    ELSE ServerProxy_request_finish(parse_response(t.body))

\* C13: every finished call has the outcome its own name, arguments and the
\* response to its own POST determine; a step of one call changes no other
\* call, the response a call reads the body of is the one its own POST got,
\* and a finished call keeps its outcome whatever happens to the others.
C13_CallsAreIndependent ==
    /\ [](\A c \in Finished : tasks[c].outcome = AloneOutcome(tasks[c]))
    /\ [][\A c \in Tasks :
            /\ tasks'[c] # tasks[c] => \A d \in Tasks \ {c} : tasks'[d] = tasks[d]
            /\ tasks[c].pc = "done" => tasks'[c] = tasks[c]
            /\ tasks[c].pc = "awaitBody" /\ tasks'[c].pc = "done"
                  => tasks'[c].response = tasks[c].response]_vars

\* Two calls on one proxy got different responses: one failed with
\* ProtocolError 500, the other returned 7.
C13_Witness ==
    \E c \in Finished, d \in Finished :
        /\ c # d /\ tasks[c].proxy = tasks[d].proxy
        /\ tasks[c].outcome.kind = "ProtocolError" /\ tasks[c].outcome.errcode = 500
        /\ tasks[d].outcome = Return(IntV(7))

\* The call got a response and then reading its body failed with an error
\* other than cancellation.
BodyReadFailed(c) ==
    tasks[c].pc = "done" /\ tasks[c].response # None /\ tasks[c].error \in Errors

\* C14: when a response was obtained and reading its body fails with an error
\* other than cancellation, the invoke fails with ProtocolError(url, that
\* response's status, str(error), that response's headers), whatever the
\* status, 200 included.
C14_BodyFailureIsProtocolError ==
    \A c \in Tasks :
        BodyReadFailed(c) =>
            /\ tasks[c].outcome.kind = "ProtocolError"
            /\ tasks[c].outcome.url = tasks[c].url
            /\ tasks[c].outcome.errcode = tasks[c].response.status
            /\ tasks[c].outcome.headers = tasks[c].response.headers
            /\ tasks[c].outcome.errmsg = tasks[c].error.msg

C14_Witness ==
    \E c \in Tasks :
        /\ BodyReadFailed(c)
        /\ tasks[c].response.status = 200
        /\ tasks[c].outcome =
               ProtocolError("http://example.org/RPC2", 200, "timed out", ("Server" :> "s1"))

\* The call's POST is issued and the call has not finished.
Pending(c) == tasks[c].pc \in {"awaitPost", "awaitBody"}

\* The round trip of c has completed (the body arrived), failed (the POST or
\* the body read raised) or been cancelled, and c has not yet run since.
RoundTripOver(c) ==
    \/ tasks[c].pc = "awaitBody" /\ tasks[c].wake # "none"
    \/ tasks[c].pc = "awaitPost" /\ tasks[c].wake = "error"

\* C15: an invoke whose POST is issued finishes (returns or raises) only in a
\* step taken after its own round trip completed, failed or was cancelled,
\* never while the round trip is pending; a finished invoke keeps its one
\* outcome; and once the round trip is over the invoke eventually finishes,
\* given that the event loop runs every scheduled step.
C15_ResumesOnlyAndEventuallyAfterRoundTrip ==
    /\ [][\A c \in Tasks :
            /\ Pending(c) /\ tasks'[c].pc = "done" => RoundTripOver(c)
            /\ Pending(c) /\ tasks'[c].pc # "done" => tasks'[c].pc \in {"awaitPost", "awaitBody"}
            /\ tasks[c].pc = "done" => tasks'[c] = tasks[c]]_vars
    /\ \A c \in 1..MaxCalls :
            (c \in Tasks /\ RoundTripOver(c)) ~> (c \in Finished)

\* The body of one call has arrived and the call has not run yet, another
\* call is still waiting for its response, undisturbed.
C15_Witness ==
    \E c \in Tasks, d \in Tasks :
        /\ tasks[c].pc = "awaitBody" /\ tasks[c].wake = "result"
        /\ tasks[d].pc = "awaitPost" /\ tasks[d].wake = "none"

\* C16: calls are not serialized.  Whatever the other calls are doing, a call
\* whose round trip is over can take its step at once, and a call that is
\* waiting can have its own round trip completed; so a call made later can
\* finish while an earlier one is still waiting, and the other way round.
C16_NoSerialization ==
    \A b \in Tasks :
        /\ RoundTripOver(b) => ENABLED Step(b)
        /\ (tasks[b].pc = "awaitBody" /\ tasks[b].wake = "result") =>
               ENABLED (\E body \in Bodies : BodyRead(b, body))
        /\ (Pending(b) /\ tasks[b].wake = "none") =>
               ENABLED (\E kind \in WakeKinds : Wakeup(b, kind))

\* B, invoked after A on the same proxy, has returned while A still waits for
\* the response to its POST.
C16_Witness ==
    \E a \in Tasks, b \in Tasks :
        /\ a < b
        /\ tasks[a].pc = "awaitPost" /\ tasks[a].wake = "none"
        /\ tasks[b].pc = "done" /\ tasks[b].outcome.kind = "return"
        /\ tasks[a].proxy = tasks[b].proxy

\* What construction fixed on a proxy and on its transport.
ProxyConfig(p) ==
    [host |-> p.host, handler |-> p.handler, encoding |-> p.encoding,
     allow_none |-> p.allow_none, transport |-> p.transport]

TransportConfig(t) ==
    [use_https |-> t.use_https, headers |-> t.headers, auth |-> t.auth,
     user_agent |-> t.user_agent]

\* C17: no step changes what construction fixed on an existing proxy or
\* transport; a step of a call (resolve, invoke, and every way a call ends)
\* changes no proxy and no transport at all, so it releases no connector; a
\* connector is released only by a close() on a proxy that uses it.
C17_FacadeStateIsFixed ==
    [][/\ \A p \in DOMAIN proxies :
             p \in DOMAIN proxies' /\ ProxyConfig(proxies'[p]) = ProxyConfig(proxies[p])
       /\ \A t \in DOMAIN transports :
             /\ t \in DOMAIN transports'
             /\ TransportConfig(transports'[t]) = TransportConfig(transports[t])
             /\ transports'[t].connector_closes # transports[t].connector_closes =>
                    \E p \in DOMAIN proxies :
                        /\ proxies[p].transport = t
                        /\ proxies'[p].close_calls = proxies[p].close_calls + 1
       /\ tasks' # tasks => transports' = transports /\ proxies' = proxies]_vars

\* A call failed with ProtocolError, its proxy's connector is not released,
\* and a later call on the same proxy has its POST out.
C17_Witness ==
    \E c \in Finished, d \in Tasks :
        /\ c < d
        /\ tasks[c].outcome.kind = "ProtocolError"
        /\ tasks[d].pc = "awaitPost"
        /\ tasks[d].proxy = tasks[c].proxy
        /\ Releases(tasks[c].proxy) = 0

\* C18: the status check comes before decoding.  A call fails with Fault only
\* when its response had status 200 and the body was read; a response with
\* another status whose body is a fault document fails with ProtocolError
\* whose message is the raw body, never with Fault.
C18_StatusCheckedBeforeDecoding ==
    \A c \in Finished :
        /\ tasks[c].outcome.kind = "Fault" =>
               /\ BodyObtained(c)
               /\ tasks[c].response.status = 200
               /\ tasks[c].body.doc = "fault"
        /\ (BodyObtained(c) /\ tasks[c].response.status # 200 /\ tasks[c].body.doc = "fault") =>
               /\ tasks[c].outcome.kind = "ProtocolError"
               /\ tasks[c].outcome.errcode = tasks[c].response.status
               /\ tasks[c].outcome.errmsg = tasks[c].body.text

C18_Witness ==
    \E c \in Finished :
        /\ BodyObtained(c)
        /\ tasks[c].response.status = 500
        /\ tasks[c].body = FaultBody
        /\ tasks[c].outcome.kind = "ProtocolError"
        /\ tasks[c].outcome.errmsg = "<fault>17 method not found</fault>"

\* The call's encode failed: a None among the arguments, allow_none off.
EncodeFailed(c) ==
    /\ tasks[c].pc = "done"
    /\ tasks[c].url = ""

\* C19: encoding comes before all network I/O.  A call with a None argument
\* on a proxy with allow_none off fails with the codec's TypeError, not with
\* ProtocolError; the transport is not entered and no POST is issued for it.
C19_EncodeFailsBeforeTransport ==
    \A c \in Tasks :
        /\ EncodeFailed(c) =>
               /\ HasNone(Items(tasks[c].args)) /\ ~proxies[tasks[c].proxy].allow_none
               /\ tasks[c].outcome.kind = "TypeError"
               /\ postCount[c] = 0
               /\ sendCount[c] = 1
               /\ tasks[c].response = None
        /\ tasks[c].pc = "awaitPost" =>
               ~(HasNone(Items(tasks[c].args)) /\ ~proxies[tasks[c].proxy].allow_none)
        /\ EnteredTransport(c) => postCount[c] = 1

C19_Witness ==
    \E c \in Finished :
        /\ EncodeFailed(c)
        /\ tasks[c].args = TupleV(<<IntV(7), NoneV>>)
        /\ tasks[c].outcome.kind = "TypeError"
        /\ postCount[c] = 0
====
